---- MODULE Spec2Model ----
(***************************************************************************)
(* paper-deprecations: the run of main (cache replay or fresh fetch), the  *)
(* worker pool of ParseDeprecations, and generateReport with its cache     *)
(* snapshot.                                                               *)
(*                                                                         *)
(* Go strings are tuples of one-character strings, so that Split, Atoi,    *)
(* TrimPrefix and the byte-wise string order are computed, not assumed.    *)
(* Times are milliseconds; Unix() truncates to whole seconds.              *)
(***************************************************************************)
EXTENDS Integers, Sequences, FiniteSets, TLC

VARIABLES
    useCache,     \* isCached: the -c / --cache flag
    outDir,       \* outDir: the -o / --output-dir flag
    numWorkers,   \* numWorkers of ParseDeprecations
    now,          \* the wall clock of the run
    fs,           \* the cache files on disk: path -> content
    indexPage,    \* what the site answers for /deprecated-list.html
    pc,           \* main's position
    fetches,      \* number of network fetches issued so far (http.Get calls)
    matches,      \* matches: the index entries, in document order
    wpc,          \* per worker goroutine: its position
    wj,           \* per worker goroutine: the loop variable j
    wres,         \* per worker goroutine: the result about to be sent
    sent,         \* per index entry: number of records sent for it
    fetchErr,     \* the index entries whose FetchHTML returned an error
    resultsChan,  \* the buffered channel's content
    chanClosed,   \* close(resultsChan) has happened
    wg,           \* the WaitGroup counter
    results,      \* results: what main collected / replayed
    cachedTime,   \* generateReport's cachedTime argument (Nil on a fresh run)
    report,       \* the HTML report file: NoReport or the rendered Report
    cacheWrites,  \* number of calls of Cache.Save in this run
    call,         \* a function called on its own: its name and arguments
    ret,          \* what that call returned
    runs          \* the earlier runs of the program on this disk, oldest first

vars == <<useCache, outDir, numWorkers, now, fs, indexPage, pc, fetches, matches,
          wpc, wj, wres, sent, fetchErr, resultsChan, chanClosed, wg, results,
          cachedTime, report, cacheWrites, call, ret, runs>>

\* ------------------------------------------------------------------ strings

\* The characters the model uses, in byte order.
Ascii ==
    << " ", "\"", "(", ")", "+", ",", "-", ".",
       "0", "1", "2", "3", "4", "5", "6", "7", "8", "9", "=",
       "A", "B", "C", "D", "K", "U", "V",
       "a", "c", "e", "f", "i", "k", "l", "m", "n", "o", "r", "s", "v", "w", "x" >>

Ord(c) == CHOOSE i \in 1..Len(Ascii) : Ascii[i] = c

Digits == {"0", "1", "2", "3", "4", "5", "6", "7", "8", "9"}

MinOf(S) == CHOOSE x \in S : \A y \in S : x <= y

\* Go's < on strings: byte-wise lexicographic, a proper prefix is smaller.
StrLess(a, b) ==
    LET n    == IF Len(a) < Len(b) THEN Len(a) ELSE Len(b)
        diff == {i \in 1..n : a[i] # b[i]}
    IN  IF diff = {} THEN Len(a) < Len(b)
        ELSE Ord(a[MinOf(diff)]) < Ord(b[MinOf(diff)])

\* strings.Split(s, sep) for a one-character separator.
RECURSIVE Split(_, _)
Split(s, sep) ==
    LET idx == {i \in 1..Len(s) : s[i] = sep}
    IN  IF idx = {} THEN << s >>
        ELSE << SubSeq(s, 1, MinOf(idx) - 1) >>
             \o Split(SubSeq(s, MinOf(idx) + 1, Len(s)), sep)

\* strings.Join(parts, sep).
RECURSIVE Join(_, _)
Join(parts, sep) ==
    IF Len(parts) = 0 THEN << >>
    ELSE IF Len(parts) = 1 THEN parts[1]
    ELSE parts[1] \o << sep >> \o Join(Tail(parts), sep)

\* strings.TrimPrefix(s, "v").
TrimPrefixV(s) == IF Len(s) > 0 /\ s[1] = "v" THEN Tail(s) ELSE s

RECURSIVE DecimalValue(_)
DecimalValue(s) ==
    IF Len(s) = 0 THEN 0
    ELSE 10 * DecimalValue(SubSeq(s, 1, Len(s) - 1)) + (Ord(s[Len(s)]) - Ord("0"))

\* strconv.Atoi with the error dropped (aNum, _ := ...): an optional sign and
\* decimal digits; anything else is a syntax error and yields 0.
Atoi(s) ==
    LET signed == Len(s) > 0 /\ s[1] \in {"+", "-"}
        body   == IF signed THEN Tail(s) ELSE s
        ok     == Len(body) > 0 /\ \A i \in 1..Len(body) : body[i] \in Digits
    IN  IF ~ok THEN 0
        ELSE IF signed /\ s[1] = "-" THEN 0 - DecimalValue(body)
        ELSE DecimalValue(body)

\* A plausible bug: versions compared as strings.
CompareVersionsLexical(a, b) == StrLess(b, a)

\* CompareVersions returns true if version a is newer than version b.
CompareVersions(a, b) ==
    LET aParts == Split(TrimPrefixV(a), ".")
        bParts == Split(TrimPrefixV(b), ".")
        n      == IF Len(aParts) < Len(bParts) THEN Len(aParts) ELSE Len(bParts)
        diff   == {i \in 1..n : Atoi(aParts[i]) # Atoi(bParts[i])}
    IN  IF diff # {}
        THEN Atoi(aParts[MinOf(diff)]) > Atoi(bParts[MinOf(diff)])
        ELSE Len(aParts) > Len(bParts)

\* getClassPath: the name without its last dot-separated part.
getClassPath(fullPath) ==
    LET parts == Split(fullPath, ".")
    IN  IF Len(parts) > 1 THEN Join(SubSeq(parts, 1, Len(parts) - 1), ".")
        ELSE fullPath

\* ------------------------------------------------------------------ data

\* Symbol names and versions the runs are fed with.
ItemBm == << "B", ".", "m" >>
ItemAf == << "A", ".", "f" >>
V1_21  == << "1", ".", "2", "1" >>
V1_3   == << "1", ".", "3" >>

Unknown        == << "U", "n", "k", "n", "o", "w", "n" >>
UnknownVersion == << "U", "n", "k", "n", "o", "w", "n", " ",
                     "V", "e", "r", "s", "i", "o", "n" >>
UnknownClass   == << "U", "n", "k", "n", "o", "w", "n", " ",
                     "C", "l", "a", "s", "s" >>

NoError    == "nil"
FetchError == "fetch failed"

\* DeprecationResult{Item, Version, Error}; Version is "" when Error is set.
DeprecationResult(item, version, error) ==
    [Item |-> item, Version |-> version, Error |-> error]

NoResult == DeprecationResult(<< >>, << >>, NoError)

\* ------------------------------------------------------------------ cache

CwdCacheFile == "deprecations.json"
OutCacheFile == "out/deprecations.json"
Paths        == {CwdCacheFile, OutCacheFile}

\* filepath.Join(outDir, "deprecations.json"): Join cleans "./x" to "x".
cacheFilePath(dir) == IF dir = "." THEN CwdCacheFile ELSE OutCacheFile

\* File contents: no file, a file that cannot be read, bytes that are not a
\* JSON Cache, or the JSON of a Cache.
FileMissing    == [kind |-> "missing",    entries |-> << >>]
FileUnreadable == [kind |-> "unreadable", entries |-> << >>]
FileCorrupt    == [kind |-> "corrupt",    entries |-> << >>]
FileJson(entries) == [kind |-> "json", entries |-> entries]

CacheEntry(version, items, lastUpdated) ==
    [Version |-> version, Items |-> items, LastUpdated |-> lastUpdated]

\* A plausible bug: every read failure treated like a missing file.
LoadCacheLenient(content) ==
    IF content.kind = "json"
    THEN [err |-> FALSE, Nil |-> FALSE, Entries |-> content.entries]
    ELSE [err |-> FALSE, Nil |-> FALSE, Entries |-> << >>]

\* LoadCache: (cache, err). A missing file is &Cache{} and no error; any other
\* read failure and undecodable content are (nil, err). Nil says that the
\* *Cache returned is nil.
LoadCache(content) ==
    IF content.kind = "missing" THEN [err |-> FALSE, Nil |-> FALSE, Entries |-> << >>]
    ELSE IF content.kind = "json"
    THEN [err |-> FALSE, Nil |-> FALSE, Entries |-> content.entries]
    ELSE [err |-> TRUE, Nil |-> TRUE, Entries |-> << >>]

\* time.Duration of 24*time.Hour, in milliseconds.
MaxAge == 24 * 3600 * 1000

\* t.Unix(): whole seconds since the epoch.
Unix(t) == t \div 1000

\* time.Unix(sec, 0).
TimeUnix(sec) == sec * 1000

\* A plausible bug: the boundary taken as inclusive.
isCacheValidInclusive(lastUpdated, maxAge) == now - lastUpdated <= maxAge

\* isCacheValid: time.Since(lastUpdated) < maxAge.
isCacheValid(lastUpdated, maxAge) == now - lastUpdated < maxAge

\* main, lines 59-61: the loaded snapshot is replayed.
CacheUsable(loaded) ==
    /\ ~loaded.err
    /\ Len(loaded.Entries) > 0
    /\ isCacheValid(loaded.Entries[1].LastUpdated, MaxAge)

\* One entry's items as results: Item and Version set, Error nil.
EntryResults(entry) ==
    [i \in 1..Len(entry.Items) |->
        DeprecationResult(entry.Items[i], entry.Version, NoError)]

\* A plausible bug: only the first entry is replayed.
ReplayFirstEntry(entries) ==
    IF Len(entries) = 0 THEN << >> ELSE EntryResults(entries[1])

\* main, lines 63-71: the snapshot's entries flattened into results.
RECURSIVE ReplayResults(_)
ReplayResults(entries) ==
    IF Len(entries) = 0 THEN << >>
    ELSE EntryResults(Head(entries)) \o ReplayResults(Tail(entries))

\* ------------------------------------------------------------------ parser

\* What a detail page fetch can return: an error, or markup on which
\* extractDeprecatedSince yields `since` ("" when nothing is found).
FetchFailed    == [err |-> TRUE,  since |-> << >>]
Fetched(since) == [err |-> FALSE, since |-> since]
FetchOutcomes  == {FetchFailed, Fetched(<< >>), Fetched(V1_21), Fetched(V1_3)}

\* A plausible bug: a page without a version is reported as a failure.
processDeprecatedItemStrict(item, fetched) ==
    IF fetched.err \/ fetched.since = << >>
    THEN DeprecationResult(item, << >>, FetchError)
    ELSE DeprecationResult(item, fetched.since, NoError)

\* processDeprecatedItem(link, item), given what FetchHTML(link) returned.
processDeprecatedItem(item, fetched) ==
    IF fetched.err THEN DeprecationResult(item, << >>, FetchError)
    ELSE IF fetched.since = << >> THEN DeprecationResult(item, Unknown, NoError)
    ELSE DeprecationResult(item, fetched.since, NoError)

\* strings.TrimSpace, for the space character.
RECURSIVE TrimSpace(_)
TrimSpace(s) ==
    IF Len(s) = 0 THEN s
    ELSE IF s[1] = " " THEN TrimSpace(Tail(s))
    ELSE IF s[Len(s)] = " " THEN TrimSpace(SubSeq(s, 1, Len(s) - 1))
    ELSE s

\* strings.Contains(s, c) for a one-character c.
Contains(s, c) == \E i \in 1..Len(s) : s[i] = c

\* strings.Trim(s, "\""): every leading and trailing quote character cut off.
RECURSIVE TrimQuotes(_)
TrimQuotes(s) ==
    IF Len(s) = 0 THEN s
    ELSE IF s[1] = "\"" THEN TrimQuotes(Tail(s))
    ELSE IF s[Len(s)] = "\"" THEN TrimQuotes(SubSeq(s, 1, Len(s) - 1))
    ELSE s

\* strings.TrimSuffix(s, suffix).
TrimSuffix(s, suffix) ==
    IF Len(s) >= Len(suffix) /\ SubSeq(s, Len(s) - Len(suffix) + 1, Len(s)) = suffix
    THEN SubSeq(s, 1, Len(s) - Len(suffix))
    ELSE s

\* A detail page as html.Parse returns it: its section elements in document
\* order, each with its id and the span elements below it in document order;
\* a span has its class and its direct children: a elements (with an href
\* that contains "#since()" or not), text nodes and other elements.
SinceLink      == [type |-> "a",    since |-> TRUE,  data |-> << >>]
OtherLink      == [type |-> "a",    since |-> FALSE, data |-> << >>]
OtherElement   == [type |-> "code", since |-> FALSE, data |-> << >>]
TextNode(data) == [type |-> "text", since |-> FALSE, data |-> data]
SpanNode(class, kids) == [class |-> class, kids |-> kids]
SectionNode(id, spans) == [id |-> id, spans |-> spans]

\* itemName := elementID[strings.LastIndex(elementID, ".")+1:]
itemName(elementID) ==
    LET dots == {i \in 1..Len(elementID) : elementID[i] = "."}
    IN  IF dots = {} THEN elementID
        ELSE SubSeq(elementID, (CHOOSE i \in dots : \A k \in dots : k <= i) + 1,
                    Len(elementID))

\* findElementNodeByID: traverse goes on with the siblings after a match, so
\* found ends as the last section with the id; 0 is nil.
findElementNodeByID(doc, id) ==
    LET hits == {i \in 1..Len(doc) : doc[i].id = id}
    IN  IF hits = {} THEN 0 ELSE CHOOSE i \in hits : \A k \in hits : k <= i

\* findAnnotationsSpan: the first span of class "annotations"; 0 is nil.
findAnnotationsSpan(n) ==
    LET hits == {i \in 1..Len(n.spans) : n.spans[i].class = "annotations"}
    IN  IF hits = {} THEN 0 ELSE MinOf(hits)

\* The version cut out of a text node's trimmed text (lines 384-386).
VersionOfText(text) ==
    TrimSuffix(TrimSuffix(TrimQuotes(Split(text, "=")[2]), << "\"", ")" >>),
               << "\"", "," >>)

\* The loop over the span's children (lines 368-393).
RECURSIVE ScanChildren(_, _)
ScanChildren(kids, foundSince) ==
    IF Len(kids) = 0 THEN << >>
    ELSE LET c     == Head(kids)
             found == foundSince \/ (c.type = "a" /\ c.since)
         IN  IF found /\ c.type = "text" /\ Contains(TrimSpace(c.data), "=")
             THEN VersionOfText(TrimSpace(c.data))
             ELSE ScanChildren(Tail(kids), found)

extractDeprecatedSinceFromNode(n) ==
    IF findAnnotationsSpan(n) = 0 THEN << >>
    ELSE ScanChildren(n.spans[findAnnotationsSpan(n)].kids, FALSE)

extractDeprecatedSince(doc, elementID) ==
    IF findElementNodeByID(doc, itemName(elementID)) = 0 THEN << >>
    ELSE extractDeprecatedSinceFromNode(doc[findElementNodeByID(doc, itemName(elementID))])

\* The index page: a fetch error, or the markup's div elements in document
\* order. A div is a summary item name (class "col-summary-item-name ...") or
\* not; href is its link's target; frags are the texts of the link's label
\* between its <wbr> markers (one text: no marker).
IndexError      == [err |-> TRUE,  rows |-> << >>]
IndexRows(rows) == [err |-> FALSE, rows |-> rows]
Div(summary, href, frags) == [summary |-> summary, href |-> href, frags |-> frags]

\* A summary row with one marker: the text before and after <wbr>.
Row(href, pre, post) == Div(TRUE, href, << pre, post >>)

\* itemRe matches the div: the class, a non-empty href, and a label that is
\* ([^<]*), an optional <wbr>, ([^<]+) up to </a></div>.
RowMatches(row) ==
    /\ row.summary
    /\ row.href # ""
    /\ \/ Len(row.frags) = 1 /\ Len(row.frags[1]) > 0
       \/ Len(row.frags) = 2 /\ Len(row.frags[2]) > 0

\* The submatches: without a marker the greedy ([^<]*) leaves one character
\* to ([^<]+).
Submatch(row) ==
    IF Len(row.frags) = 1
    THEN << row.href,
            SubSeq(row.frags[1], 1, Len(row.frags[1]) - 1),
            << row.frags[1][Len(row.frags[1])] >> >>
    ELSE << row.href, row.frags[1], row.frags[2] >>

\* A plausible bug: the label taken from match[2] alone, as the older parser did.
FindAllMatchesFirstGroup(rows) ==
    LET ms == SelectSeq(rows, RowMatches)
    IN  [i \in 1..Len(ms) |-> [link |-> Submatch(ms[i])[1], item |-> Submatch(ms[i])[2]]]

\* itemRe.FindAllStringSubmatch with fullText := match[2] + match[3].
FindAllMatches(rows) ==
    LET ms == SelectSeq(rows, RowMatches)
    IN  [i \in 1..Len(ms) |->
            [link |-> Submatch(ms[i])[1],
             item |-> Submatch(ms[i])[2] \o Submatch(ms[i])[3]]]

\* A plausible bug: floor instead of ceiling, the tail of the list is dropped.
itemsPerWorkerFloor(n, nw) == n \div nw

\* itemsPerWorker := (len(matches) + numWorkers - 1) / numWorkers
itemsPerWorker(n, nw) == (n + nw - 1) \div nw

\* start := workerID * itemsPerWorker
chunkStart(w, n, nw) == w * itemsPerWorker(n, nw)

\* A plausible bug: end is not cut down to len(matches).
chunkEndNoClamp(w, n, nw) == chunkStart(w, n, nw) + itemsPerWorker(n, nw)

\* end := start + itemsPerWorker; if end > len(matches) { end = len(matches) }
chunkEnd(w, n, nw) ==
    IF chunkStart(w, n, nw) + itemsPerWorker(n, nw) > n THEN n
    ELSE chunkStart(w, n, nw) + itemsPerWorker(n, nw)

Workers == 0..(numWorkers - 1)

\* ------------------------------------------------------------------ report

DeprecatedItem(item) == [FullPath |-> item, Name |-> item]

\* The results with / without an error, in arrival order.
KnownResults(rs)  == SelectSeq(rs, LAMBDA r : r.Error = NoError)
FailedResults(rs) == SelectSeq(rs, LAMBDA r : r.Error # NoError)

\* Keys of versionGroups and of versionGroups[version].
VersionKeys(rs) == {rs[i].Version : i \in {k \in 1..Len(rs) : rs[k].Error = NoError}}
ClassKeys(rs, version) ==
    {getClassPath(rs[i].Item) :
        i \in {k \in 1..Len(rs) : rs[k].Error = NoError /\ rs[k].Version = version}}

\* versionGroups[version][classPath]
GroupItems(rs, version, classPath) ==
    LET sel == SelectSeq(rs, LAMBDA r : /\ r.Error = NoError
                                        /\ r.Version = version
                                        /\ getClassPath(r.Item) = classPath)
    IN  [i \in 1..Len(sel) |-> DeprecatedItem(sel[i].Item)]

\* A plausible bug: the records with an error are skipped and not kept.
UnknownItemsDropped(rs) == << >>

\* unknownVersionItems
UnknownItems(rs) ==
    LET sel == FailedResults(rs)
    IN  [i \in 1..Len(sel) |-> DeprecatedItem(sel[i].Item)]

\* The keys of a map appended to a slice: the map is iterated in any order.
KeySlices(S) ==
    {s \in [1..Cardinality(S) -> S] :
        \A i, j \in 1..Cardinality(S) : i # j => s[i] # s[j]}

\* versions after sort.Slice(versions, CompareVersions): every arrangement in
\* which no element is less than one before it (sort.Slice is not stable).
SortedVersions(rs) ==
    {s \in KeySlices(VersionKeys(rs)) :
        \A i, j \in 1..Len(s) : i < j => ~CompareVersions(s[j], s[i])}

\* classGroups of one version after sort.Slice by ClassName; the class names
\* of a version differ, so the order is the only one.
ClassGroups(rs, version) ==
    LET names == CHOOSE s \in KeySlices(ClassKeys(rs, version)) :
                    \A i, j \in 1..Len(s) : i < j => ~StrLess(s[j], s[i])
    IN  [i \in 1..Len(names) |->
            [ClassName |-> names[i], Items |-> GroupItems(rs, version, names[i])]]

\* groups, for the order vs the version sort produced
ReportGroups(rs, vs) ==
    [i \in 1..Len(vs) |-> [Version |-> vs[i], Classes |-> ClassGroups(rs, vs[i])]]
    \o (IF Len(UnknownItems(rs)) > 0
        THEN << [Version |-> UnknownVersion,
                 Classes |-> << [ClassName |-> UnknownClass,
                                 Items     |-> UnknownItems(rs)] >>] >>
        ELSE << >>)

\* item.FullPath of every item of every class group, in order
RECURSIVE GroupPaths(_)
GroupPaths(classes) ==
    IF Len(classes) = 0 THEN << >>
    ELSE [i \in 1..Len(Head(classes).Items) |-> Head(classes).Items[i].FullPath]
         \o GroupPaths(Tail(classes))

\* reportCache.Entries as rebuilt from groups (lines 186-200)
CacheEntries(groups, lastUpdated) ==
    [i \in 1..Len(groups) |->
        CacheEntry(groups[i].Version, GroupPaths(groups[i].Classes),
                   TimeUnix(lastUpdated))]

NoReport == [written |-> FALSE, Groups |-> << >>, LastUpdated |-> 0]
Report(groups, lastUpdated) ==
    [written |-> TRUE, Groups |-> groups, LastUpdated |-> lastUpdated]

NoTime      == [set |-> FALSE, t |-> 0]

\* A plausible bug: the replay path passes nil for the cached time, as the
\* fresh path does.
TimePtrNil(t) == NoTime

TimePtr(t)  == [set |-> TRUE,  t |-> t]

\* ------------------------------------------------------------------ bounds

\* Longest index list and largest worker pool of the dispatcher runs
\* (the source fixes numWorkers to 10, and to 8 in the older parser).
MaxEntries == 3
MaxWorkers == 2

\* The same for the runs that start from every cache file.
RunMaxEntries == 2
RunMaxWorkers == 1

Hour      == 3600 * 1000
StartTime == 100 * Hour

SeqsUpTo(S, n) == UNION {[1..k -> S] : k \in 0..n}

\* Rows an index page is made of; a page may list a row more than once.
RowPool ==
    { Row("a/B.html#m()", << "B", "." >>, << "m" >>),
      Row("a/A.html#f",   << "A", "." >>, << "f" >>) }

IndexPages(n) == {IndexError} \cup {IndexRows(rows) : rows \in SeqsUpTo(RowPool, n)}

\* Cache files a run can find. A snapshot is what generateReport wrote at some
\* earlier time: every entry carries that one time, in whole seconds.
Ages == {Hour, MaxAge - 1000, MaxAge, 25 * Hour}

SnapOne(t) == << CacheEntry(V1_21, << ItemBm >>, t) >>
SnapUnknowns(t) ==
    << CacheEntry(Unknown, << ItemBm >>, t), CacheEntry(UnknownVersion, << ItemAf >>, t) >>
SnapTwo(t) ==
    << CacheEntry(V1_21, << ItemAf >>, t), CacheEntry(V1_3, << ItemBm >>, t) >>

CacheFiles ==
    {FileMissing, FileUnreadable, FileCorrupt, FileJson(<< >>)}
    \cup {FileJson(SnapOne(StartTime - a)) : a \in Ages}
    \cup {FileJson(SnapUnknowns(StartTime - Hour)), FileJson(SnapTwo(StartTime - Hour))}

\* The flags and the disk a run starts from. Without the cache flag the file
\* in the output directory is never read.
Disk(cwdFile, outFile) ==
    [p \in Paths |-> IF p = CwdCacheFile THEN cwdFile ELSE outFile]

Environments ==
    {[useCache |-> c, outDir |-> ".", fs |-> Disk(f, FileMissing)] :
        c \in BOOLEAN, f \in CacheFiles}
    \cup
    {[useCache |-> TRUE, outDir |-> "out", fs |-> Disk(FileMissing, f)] :
        f \in CacheFiles}
    \cup
    {[useCache |-> c, outDir |-> "out", fs |-> Disk(FileCorrupt, f)] :
        c \in BOOLEAN,
        f \in {FileMissing, FileCorrupt, FileJson(SnapOne(StartTime - Hour))}}
    \cup
    {[useCache |-> FALSE, outDir |-> "out", fs |-> Disk(FileMissing, f)] :
        f \in {FileMissing, FileCorrupt}}

\* ------------------------------------------------------------------ runs

\* No function is called on its own in a run of main.
NoCall == [fn |-> "none"]
NoRet  == [done |-> FALSE]

\* The state of main before its first step.
MainInit(env, page, nw) ==
    /\ useCache = env.useCache
    /\ outDir = env.outDir
    /\ fs = env.fs
    /\ indexPage = page
    /\ numWorkers = nw
    /\ now = StartTime
    /\ pc = "start"
    /\ fetches = 0
    /\ matches = << >>
    /\ wpc = [w \in 0..(nw - 1) |-> "none"]
    /\ wj = [w \in 0..(nw - 1) |-> 0]
    /\ wres = [w \in 0..(nw - 1) |-> NoResult]
    /\ sent = << >>
    /\ fetchErr = {}
    /\ resultsChan = << >>
    /\ chanClosed = FALSE
    /\ wg = 0
    /\ results = << >>
    /\ cachedTime = NoTime
    /\ report = NoReport
    /\ cacheWrites = 0
    /\ runs = << >>

InitRun(env, page, nw) ==
    /\ MainInit(env, page, nw)
    /\ call = NoCall
    /\ ret = NoRet

\* Any flags and any disk, short index lists.
Init ==
    \E env \in Environments, page \in IndexPages(RunMaxEntries), nw \in 1..RunMaxWorkers :
        InitRun(env, page, nw)

\* No cache flag and no cache file, longer index lists and more workers.
InitDispatch ==
    \E page \in IndexPages(MaxEntries), nw \in 1..MaxWorkers :
        InitRun([useCache |-> FALSE, outDir |-> ".",
                 fs |-> [p \in Paths |-> FileMissing]], page, nw)

\* main, lines 20-82: flags, MkdirAll, the cache replay decision, and on the
\* fresh path the call of FetchHTML("/deprecated-list.html").
MainStart ==
    /\ pc = "start"
    /\ \E mkdirOk \in BOOLEAN :
        IF ~mkdirOk
        THEN /\ pc' = "aborted"
             /\ UNCHANGED <<results, cachedTime, fetches>>
        ELSE LET loaded == LoadCache(fs[cacheFilePath(outDir)])
             IN  IF useCache /\ CacheUsable(loaded)
                 THEN /\ results' = ReplayResults(loaded.Entries)
                      /\ cachedTime' = TimePtr(loaded.Entries[1].LastUpdated)
                      /\ pc' = "report"
                      /\ UNCHANGED fetches
                 ELSE /\ pc' = "fetchIndex"
                      /\ fetches' = fetches + 1
                      /\ UNCHANGED <<results, cachedTime>>
    /\ UNCHANGED <<runs, call, ret, useCache, outDir, numWorkers, now, fs, indexPage, matches, wpc, wj,
                   wres, sent, fetchErr, resultsChan, chanClosed, wg, report, cacheWrites>>

\* A plausible bug: the error of the index fetch is printed and main goes on
\* with the empty listHtml.
FetchIndexReturnGoOn ==
    /\ pc = "fetchIndex"
    /\ matches' = IF indexPage.err THEN << >> ELSE FindAllMatches(indexPage.rows)
    /\ wpc' = [w \in Workers |-> "ready"]
    /\ sent' = [j \in 1..Len(matches') |-> 0]
    /\ wg' = numWorkers
    /\ pc' = "collect"
    /\ UNCHANGED <<runs, call, ret, useCache, outDir, numWorkers, now, fs, indexPage, fetches, wj,
                   wres, fetchErr, resultsChan, chanClosed, results, cachedTime, report,
                   cacheWrites>>

\* FetchHTML of the index returns. On an error main returns (lines 83-86);
\* otherwise ParseDeprecations runs up to its first blocking point: the
\* matches, make(chan, len(matches)), wg.Add(1) and go for every worker, and
\* the closer goroutine (lines 231-280).
FetchIndexReturn ==
    /\ pc = "fetchIndex"
    /\ IF indexPage.err
       THEN /\ pc' = "aborted"
            /\ UNCHANGED <<matches, wpc, sent, wg>>
       ELSE /\ matches' = FindAllMatches(indexPage.rows)
            /\ wpc' = [w \in Workers |-> "ready"]
            /\ sent' = [j \in 1..Len(matches') |-> 0]
            /\ wg' = numWorkers
            /\ pc' = "collect"
    /\ UNCHANGED <<runs, call, ret, useCache, outDir, numWorkers, now, fs, indexPage, fetches, wj, wres,
                   fetchErr, resultsChan, chanClosed, results, cachedTime, report,
                   cacheWrites>>

\* A plausible bug: the worker returns at the first failed entry.
WorkerNextStopOnError(w, j) ==
    IF j < chunkEnd(w, Len(matches), numWorkers) /\ wres[w].Error = NoError
    THEN /\ wj' = [wj EXCEPT ![w] = j]
         /\ wpc' = [wpc EXCEPT ![w] = "fetching"]
         /\ fetches' = fetches + 1
         /\ UNCHANGED wg
    ELSE /\ wpc' = [wpc EXCEPT ![w] = "done"]
         /\ wg' = wg - 1
         /\ UNCHANGED <<wj, fetches>>

\* A plausible bug: a worker with an empty chunk returns before wg.Done().
WorkerNextNoDone(w, j) ==
    IF j < chunkEnd(w, Len(matches), numWorkers)
    THEN /\ wj' = [wj EXCEPT ![w] = j]
         /\ wpc' = [wpc EXCEPT ![w] = "fetching"]
         /\ fetches' = fetches + 1
         /\ UNCHANGED wg
    ELSE /\ wpc' = [wpc EXCEPT ![w] = "done"]
         /\ wg' = IF wpc[w] = "ready" THEN wg ELSE wg - 1
         /\ UNCHANGED <<wj, fetches>>

\* The worker has finished entry j: the next entry of its chunk, or wg.Done().
WorkerNext(w, j) ==
    IF j < chunkEnd(w, Len(matches), numWorkers)
    THEN /\ wj' = [wj EXCEPT ![w] = j]
         /\ wpc' = [wpc EXCEPT ![w] = "fetching"]
         /\ fetches' = fetches + 1
         /\ UNCHANGED wg
    ELSE /\ wpc' = [wpc EXCEPT ![w] = "done"]
         /\ wg' = wg - 1
         /\ UNCHANGED <<wj, fetches>>

\* A worker goroutine starts: start, end, and the first FetchHTML of its chunk
\* (lines 254-270).
WorkerBegin(w) ==
    /\ pc = "collect"
    /\ w \in Workers
    /\ wpc[w] = "ready"
    /\ WorkerNext(w, chunkStart(w, Len(matches), numWorkers))
    /\ UNCHANGED <<runs, call, ret, useCache, outDir, numWorkers, now, fs, indexPage, pc, matches, wres,
                   sent, fetchErr, resultsChan, chanClosed, results, cachedTime, report,
                   cacheWrites>>

\* FetchHTML of a detail page returns and processDeprecatedItem builds the
\* result (lines 210-229).
FetchReturn(w) ==
    /\ pc = "collect"
    /\ w \in Workers
    /\ wpc[w] = "fetching"
    /\ \E fetched \in FetchOutcomes :
        /\ wres' = [wres EXCEPT ![w] =
                        processDeprecatedItem(matches[wj[w] + 1].item, fetched)]
        /\ fetchErr' = IF fetched.err THEN fetchErr \cup {wj[w] + 1} ELSE fetchErr
    /\ wpc' = [wpc EXCEPT ![w] = "sending"]
    /\ UNCHANGED <<runs, call, ret, useCache, outDir, numWorkers, now, fs, indexPage, pc, fetches, matches,
                   wj, sent, resultsChan, chanClosed, wg, results, cachedTime, report,
                   cacheWrites>>

\* http.Get has no timeout: the fetch in flight never returns.
FetchHang(w) ==
    /\ pc = "collect"
    /\ w \in Workers
    /\ wpc[w] = "fetching"
    /\ wpc' = [wpc EXCEPT ![w] = "hung"]
    /\ UNCHANGED <<runs, call, ret, useCache, outDir, numWorkers, now, fs, indexPage, pc, fetches, matches,
                   wj, wres, sent, fetchErr, resultsChan, chanClosed, wg, results, cachedTime,
                   report, cacheWrites>>

\* A plausible bug: the worker goes on to its next entry and leaves the send
\* of the result to later.
WorkerSendDeferred(w) ==
    /\ pc = "collect"
    /\ w \in Workers
    /\ wpc[w] = "sending"
    /\ WorkerNext(w, wj[w] + 1)
    /\ UNCHANGED <<runs, call, ret, useCache, outDir, numWorkers, now, fs, indexPage, pc, matches,
                   wres, sent, fetchErr, resultsChan, chanClosed, results, cachedTime,
                   report, cacheWrites>>

\* resultsChan <- result (line 271), then the loop's next iteration. The send
\* blocks while the buffer is full and panics on a closed channel.
WorkerSend(w) ==
    /\ pc = "collect"
    /\ w \in Workers
    /\ wpc[w] = "sending"
    /\ IF chanClosed
       THEN /\ pc' = "crashed"
            /\ UNCHANGED <<resultsChan, sent, wj, wpc, fetches, wg>>
       ELSE /\ Len(resultsChan) < Len(matches)
            /\ resultsChan' = Append(resultsChan, wres[w])
            /\ sent' = [sent EXCEPT ![wj[w] + 1] = @ + 1]
            /\ WorkerNext(w, wj[w] + 1)
            /\ UNCHANGED pc
    /\ UNCHANGED <<runs, call, ret, useCache, outDir, numWorkers, now, fs, indexPage, matches, wres,
                   fetchErr, chanClosed, results, cachedTime, report, cacheWrites>>

\* A plausible bug: the channel is closed without waiting for the workers.
CloserCloseNoWait ==
    /\ pc = "collect"
    /\ ~chanClosed
    /\ chanClosed' = TRUE
    /\ UNCHANGED <<runs, call, ret, useCache, outDir, numWorkers, now, fs, indexPage, pc, fetches,
                   matches, wpc, wj, wres, sent, fetchErr, resultsChan, wg, results,
                   cachedTime, report, cacheWrites>>

\* The closer goroutine: wg.Wait() returns, close(resultsChan) (lines 277-280).
CloserClose ==
    /\ pc = "collect"
    /\ ~chanClosed
    /\ wg = 0
    /\ chanClosed' = TRUE
    /\ UNCHANGED <<runs, call, ret, useCache, outDir, numWorkers, now, fs, indexPage, pc, fetches, matches,
                   wpc, wj, wres, sent, fetchErr, resultsChan, wg, results, cachedTime, report,
                   cacheWrites>>

\* One iteration of `for result := range resultsChan` (lines 284-286).
Collect ==
    /\ pc = "collect"
    /\ Len(resultsChan) > 0
    /\ results' = Append(results, Head(resultsChan))
    /\ resultsChan' = Tail(resultsChan)
    /\ UNCHANGED <<runs, call, ret, useCache, outDir, numWorkers, now, fs, indexPage, pc, fetches, matches,
                   wpc, wj, wres, sent, fetchErr, chanClosed, wg, cachedTime, report, cacheWrites>>

\* A plausible bug: the collector stops as soon as the channel is empty.
CollectEndOnEmpty ==
    /\ pc = "collect"
    /\ Len(resultsChan) = 0
    /\ pc' = "report"
    /\ UNCHANGED <<runs, call, ret, useCache, outDir, numWorkers, now, fs, indexPage, fetches, matches,
                   wpc, wj, wres, sent, fetchErr, resultsChan, chanClosed, wg, results,
                   cachedTime, report, cacheWrites>>

\* The range loop ends on the closed, drained channel; ParseDeprecations
\* returns and main prints the results (lines 288, 89-98).
CollectEnd ==
    /\ pc = "collect"
    /\ chanClosed
    /\ Len(resultsChan) = 0
    /\ pc' = "report"
    /\ UNCHANGED <<runs, call, ret, useCache, outDir, numWorkers, now, fs, indexPage, fetches, matches,
                   wpc, wj, wres, sent, fetchErr, resultsChan, chanClosed, wg, results, cachedTime,
                   report, cacheWrites>>

\* cache.LoadCache("deprecations.json") and reportCache.Save("deprecations.json")
\* in generateReport: a path relative to the working directory.
reportCachePath == CwdCacheFile

\* generateReport (lines 112-219). A failed LoadCache leaves reportCache nil
\* (its err is not looked at) and line 186 dereferences it; Save and os.Create
\* can fail, and generateReport then returns the error.
GenerateReport ==
    /\ pc = "report"
    /\ LET loaded      == LoadCache(fs[reportCachePath])
           lastUpdated == IF cachedTime.set THEN Unix(cachedTime.t) ELSE Unix(now)
       IN  IF loaded.Nil
           THEN /\ pc' = "crashed"
                /\ UNCHANGED <<fs, report, cacheWrites>>
           ELSE \E vs \in SortedVersions(results),
                   save \in {"saved", "open failed", "write failed"},
                   createOk \in BOOLEAN :
                LET groups == ReportGroups(results, vs)
                IN  /\ cacheWrites' = cacheWrites + 1
                    /\ IF save = "saved"
                       THEN /\ fs' = [fs EXCEPT ![reportCachePath] =
                                        FileJson(CacheEntries(groups, lastUpdated))]
                            /\ IF createOk
                               THEN /\ report' = Report(groups, lastUpdated)
                                    /\ pc' = "done"
                               ELSE /\ pc' = "failed"
                                    /\ UNCHANGED report
                       ELSE /\ fs' = IF save = "open failed" THEN fs
                                     ELSE [fs EXCEPT ![reportCachePath] = FileCorrupt]
                            /\ pc' = "failed"
                            /\ UNCHANGED report
    /\ UNCHANGED <<runs, call, ret, useCache, outDir, numWorkers, now, indexPage, fetches, matches, wpc,
                   wj, wres, sent, fetchErr, resultsChan, chanClosed, wg, results, cachedTime>>

WorkerIds == 0..(MaxWorkers - 1)

Next ==
    \/ MainStart
    \/ FetchIndexReturn
    \/ \E w \in WorkerIds : WorkerBegin(w)
    \/ \E w \in WorkerIds : FetchReturn(w)
    \/ \E w \in WorkerIds : FetchHang(w)
    \/ \E w \in WorkerIds : WorkerSend(w)
    \/ CloserClose
    \/ Collect
    \/ CollectEnd
    \/ GenerateReport

\* Runs from every environment.
Spec == Init /\ [][Next]_vars

\* Runs of the dispatcher on longer lists.
DispatchSpec == InitDispatch /\ [][Next]_vars

\* The steps of main up to the return of ParseDeprecations and of its
\* goroutines, but for a fetch that hangs.
Progress ==
    \/ MainStart
    \/ FetchIndexReturn
    \/ \E w \in WorkerIds : WorkerBegin(w)
    \/ \E w \in WorkerIds : FetchReturn(w)
    \/ \E w \in WorkerIds : WorkerSend(w)
    \/ CloserClose
    \/ Collect
    \/ CollectEnd

\* The Go scheduler runs a runnable goroutine, and a fetch that does not hang
\* returns: the program does not stop while one of them can take a step.
Fairness == WF_vars(Progress)

FairSpec == InitDispatch /\ [][Next]_vars /\ Fairness

\* ------------------------------------------------------------ run after run

\* Most runs of the program in a row on one disk.
MaxRuns == 3

\* Times from the start of a run to the start of the next: an hour, and a
\* fifth of a second less than a day.
Gaps == {Hour, MaxAge - 200}

\* What the site answers in these runs: an error, an empty list, one row.
RunPages ==
    {IndexError, IndexRows(<< >>), IndexRows(<< Row("a/B.html#m()", << "B", "." >>, << "m" >>) >>)}

\* The process has exited: main returned, or the program panicked.
Exited == pc \in {"done", "failed", "aborted", "crashed"}

\* What a run leaves behind when it exits: its flags and clock, how it ended,
\* its fetches and Save calls, and the file at generateReport's cache path.
RunRecord ==
    [useCache |-> useCache, outDir |-> outDir, now |-> now, pc |-> pc,
     fetches |-> fetches, cacheWrites |-> cacheWrites, cache |-> fs[reportCachePath]]

\* The program is started again on the same disk, later, with any flags: a
\* new process, whose main starts from flag.Parse (lines 20-51). Nothing but
\* the files survives the process.
Rerun ==
    /\ Exited
    /\ Len(runs) + 1 < MaxRuns
    /\ runs' = Append(runs, RunRecord)
    /\ \E c \in BOOLEAN, dir \in {".", "out"}, gap \in Gaps :
        /\ useCache' = c
        /\ outDir' = dir
        /\ now' = now + gap
    /\ pc' = "start"
    /\ fetches' = 0
    /\ matches' = << >>
    /\ wpc' = [w \in Workers |-> "none"]
    /\ wj' = [w \in Workers |-> 0]
    /\ wres' = [w \in Workers |-> NoResult]
    /\ sent' = << >>
    /\ fetchErr' = {}
    /\ resultsChan' = << >>
    /\ chanClosed' = FALSE
    /\ wg' = 0
    /\ results' = << >>
    /\ cachedTime' = NoTime
    /\ report' = NoReport
    /\ cacheWrites' = 0
    /\ UNCHANGED <<call, ret, numWorkers, fs, indexPage>>

\* The first run starts on a disk without cache files.
InitRuns ==
    \E c \in BOOLEAN, dir \in {".", "out"}, page \in RunPages :
        InitRun([useCache |-> c, outDir |-> dir,
                 fs |-> [p \in Paths |-> FileMissing]], page, 1)

RunsNext ==
    \/ Next
    \/ Rerun

\* Run after run on one disk.
RunsSpec == InitRuns /\ [][RunsNext]_vars

\* ------------------------------------------------------- functions on their own

\* main is not running while a function is called on its own.
mainVars == <<useCache, outDir, numWorkers, now, fs, indexPage, pc, fetches, matches,
              wpc, wj, wres, sent, fetchErr, resultsChan, chanClosed, wg, results,
              cachedTime, report, cacheWrites, runs>>

NotRunning ==
    MainInit([useCache |-> FALSE, outDir |-> ".", fs |-> [p \in Paths |-> FileMissing]],
             IndexError, 1)

\* Longest version, in dot-separated segments.
MaxSegments == 3

\* Version strings: a first segment with or without the "v" prefix, then
\* numeric segments; and two versions with a segment that is no number.
VersionHeads == {<< "1" >>, << "v", "1" >>}
VersionSegments == {<< "3" >>, << "1", "0" >>, << "2", "1" >>}
Versions ==
    {Join(<< h >> \o t, ".") :
        h \in VersionHeads, t \in SeqsUpTo(VersionSegments, MaxSegments - 1)}
    \cup {<< "1", ".", "x" >>, Unknown}

InitVersions ==
    /\ NotRunning
    /\ \E a \in Versions, b \in Versions : call = [fn |-> "CompareVersions", a |-> a, b |-> b]
    /\ ret = NoRet

\* CompareVersions(a, b), with b's and a's own comparison next to it.
CallCompareVersions ==
    /\ call.fn = "CompareVersions"
    /\ ~ret.done
    /\ ret' = [done |-> TRUE,
               ab |-> CompareVersions(call.a, call.b),
               ba |-> CompareVersions(call.b, call.a),
               aa |-> CompareVersions(call.a, call.a)]
    /\ UNCHANGED <<call, mainVars>>

VersionSpec == InitVersions /\ [][CallCompareVersions]_vars

\* Longest snapshot, in entries, that LoadCache is called on.
MaxSnapshot == 2

\* Entries a cache file can hold.
EntryPool ==
    {CacheEntry(v, items, StartTime - age) :
        v \in {V1_21, Unknown}, items \in {<< >>, << ItemBm >>}, age \in {Hour, 25 * Hour}}

\* What os.ReadFile can find at the path.
LoadInputs ==
    {FileMissing, FileUnreadable, FileCorrupt}
    \cup {FileJson(entries) : entries \in SeqsUpTo(EntryPool, MaxSnapshot)}

InitLoad ==
    /\ NotRunning
    /\ \E content \in LoadInputs : call = [fn |-> "LoadCache", content |-> content]
    /\ ret = NoRet

\* cache.LoadCache(path) on that file.
CallLoadCache ==
    /\ call.fn = "LoadCache"
    /\ ~ret.done
    /\ ret' = [done |-> TRUE, value |-> LoadCache(call.content)]
    /\ UNCHANGED <<call, mainVars>>

LoadSpec == InitLoad /\ [][CallLoadCache]_vars

\* Longest index markup, in div elements, for the extraction on its own.
MaxRows == 3

\* The div elements an index page is made of: summary rows with and without
\* a marker, with nothing before the marker, with the same symbol name; a
\* summary row with two markers, one with nothing after the marker, one
\* without label; and a div of another class.
DivPool ==
    { Row("a/B.html#m()", << "B", "." >>, << "m" >>),
      Row("a/B.html#m(i)", << "B", "." >>, << "m" >>),
      Row("a/A.html#f", << >>, << "A", ".", "f" >>),
      Div(TRUE, "a/A.html#f", << << "A", ".", "f" >> >>),
      Div(TRUE, "a/D.html#k", << << "D" >>, << "." >>, << "k" >> >>),
      Div(TRUE, "a/C.html", << << "C" >>, << >> >>),
      Div(TRUE, "a/C.html", << << >> >>),
      Div(FALSE, "a/B.html", << << "B" >> >>) }

InitExtract ==
    /\ NotRunning
    /\ \E rows \in SeqsUpTo(DivPool, MaxRows) : call = [fn |-> "FindAllMatches", rows |-> rows]
    /\ ret = NoRet

\* The index extraction of ParseDeprecations on that markup.
CallFindAllMatches ==
    /\ call.fn = "FindAllMatches"
    /\ ~ret.done
    /\ ret' = [done |-> TRUE, value |-> FindAllMatches(call.rows)]
    /\ UNCHANGED <<call, mainVars>>

ExtractSpec == InitExtract /\ [][CallFindAllMatches]_vars

\* Most section elements of a detail page.
MaxSections == 2

\* Text nodes of an annotation as javadoc renders it.
TextSince1_3   == << "=", "\"", "1", ".", "3", "\"", ")" >>
TextSince1_21  == << "=", "\"", "1", ".", "2", "1", "\"", ",", " " >>
TextForRemoval == << "=", "e", ")" >>
TextOpen       == << "(" >>

\* The children an annotations span can have.
ChildrenPool ==
    { << >>,
      << OtherLink, TextNode(TextOpen) >>,
      << OtherLink, TextNode(TextOpen), OtherLink, TextNode(TextForRemoval) >>,
      << TextNode(TextSince1_3), SinceLink >>,
      << OtherLink, TextNode(TextOpen), SinceLink >>,
      << OtherLink, TextNode(TextOpen), SinceLink, OtherElement, TextNode(TextOpen) >>,
      << OtherLink, TextNode(TextOpen), SinceLink, TextNode(TextSince1_3) >>,
      << OtherLink, TextNode(TextOpen), SinceLink, TextNode(TextSince1_21),
         OtherLink, TextNode(TextForRemoval) >> }

\* The spans below a section: none, none of class "annotations", or an
\* annotations span, alone or after another span.
SpansPool ==
    {<< >>, << SpanNode("modifiers", << SinceLink, TextNode(TextSince1_3) >>) >>}
    \cup {<< SpanNode("annotations", kids) >> : kids \in ChildrenPool}
    \cup {<< SpanNode("modifiers", << >>), SpanNode("annotations", kids) >> :
            kids \in {<< >>, << SinceLink, TextNode(TextSince1_3) >>}}

SectionPool == {SectionNode(id, spans) : id \in {<< "m" >>, << "f" >>}, spans \in SpansPool}

InitSince ==
    /\ NotRunning
    /\ \E doc \in SeqsUpTo(SectionPool, MaxSections), item \in {ItemBm, ItemAf, << "m" >>} :
        call = [fn |-> "processDeprecatedItem", doc |-> doc, item |-> item]
    /\ ret = NoRet

\* processDeprecatedItem(link, item) when FetchHTML(link) returned that page.
CallProcessDeprecatedItem ==
    /\ call.fn = "processDeprecatedItem"
    /\ ~ret.done
    /\ ret' = [done |-> TRUE,
               value |-> processDeprecatedItem(
                            call.item, Fetched(extractDeprecatedSince(call.doc, call.item)))]
    /\ UNCHANGED <<call, mainVars>>

SinceSpec == InitSince /\ [][CallProcessDeprecatedItem]_vars

\* Text nodes after a since-link: "=", the quoted value, and what the markup
\* has after it up to the next element: the end of the annotation, the comma
\* before a linked element, or text that is not linked (a further element of
\* the annotation, a following annotation, a second closing parenthesis).
SinceValues ==
    {<< "1" >>, V1_3, V1_21, << "1", ".", "2", "1", ".", "3" >>}
SinceTails ==
    { << >>, << ")" >>, << "," >>, << ",", " " >>, << ")", " " >>,
      << ")", " ", "x" >>, << ",", " ", "x", "=", "1", ")" >>, << ")", ")" >> }
SinceTexts ==
    {lead \o << "=", "\"" >> \o v \o << "\"" >> \o tail :
        lead \in {<< >>, << " " >>}, v \in SinceValues, tail \in SinceTails}

InitText ==
    /\ NotRunning
    /\ \E text \in SinceTexts :
        call = [fn |-> "extractDeprecatedSinceFromNode", text |-> text,
                n |-> SectionNode(<< "m" >>,
                        << SpanNode("annotations",
                              << OtherLink, TextNode(TextOpen),
                                 SinceLink, TextNode(text) >>) >>)]
    /\ ret = NoRet

\* extractDeprecatedSinceFromNode on a section whose annotation has that text
\* after its since-link.
CallExtractDeprecatedSinceFromNode ==
    /\ call.fn = "extractDeprecatedSinceFromNode"
    /\ ~ret.done
    /\ ret' = [done |-> TRUE, value |-> extractDeprecatedSinceFromNode(call.n)]
    /\ UNCHANGED <<call, mainVars>>

TextSpec == InitText /\ [][CallExtractDeprecatedSinceFromNode]_vars

\* Most index entries and most workers for the chunk arithmetic on its own
\* (the source has 10 workers, the older parser 8).
MaxItems == 12
MaxPool == 10

InitChunks ==
    /\ NotRunning
    /\ \E n \in 0..MaxItems, nw \in 1..MaxPool : call = [fn |-> "chunks", n |-> n, nw |-> nw]
    /\ ret = NoRet

\* start and end of every worker, and the indices j its loop
\* `for j := start; j < end; j++` reads matches[j] at.
CallChunks ==
    /\ call.fn = "chunks"
    /\ ~ret.done
    /\ ret' = [done |-> TRUE,
               start |-> [w \in 0..(call.nw - 1) |-> chunkStart(w, call.n, call.nw)],
               end   |-> [w \in 0..(call.nw - 1) |-> chunkEnd(w, call.n, call.nw)],
               reads |-> [w \in 0..(call.nw - 1) |->
                            {j \in 0..(call.n + MaxItems) :
                                /\ chunkStart(w, call.n, call.nw) <= j
                                /\ j < chunkEnd(w, call.n, call.nw)}]]
    /\ UNCHANGED <<call, mainVars>>

ChunkSpec == InitChunks /\ [][CallChunks]_vars

\* ------------------------------------------------------------------ claims

\* ParseDeprecations has returned to main (the run did not replay a cache).
ParseReturned == pc = "report" /\ ~cachedTime.set

ItemCount(rs, item)  == Cardinality({i \in 1..Len(rs) : rs[i].Item = item})
MatchCount(ms, item) == Cardinality({i \in 1..Len(ms) : ms[i].item = item})
ErrorCount(rs, item) ==
    Cardinality({i \in 1..Len(rs) : rs[i].Item = item /\ rs[i].Error # NoError})
FailedCount(item)    == Cardinality({j \in fetchErr : matches[j].item = item})

\* The index entries (1-based) of worker w's chunk.
Chunk(w) ==
    {j \in 1..Len(matches) : /\ chunkStart(w, Len(matches), numWorkers) < j
                             /\ j <= chunkEnd(w, Len(matches), numWorkers)}

\* C1: ParseDeprecations returns exactly one DeprecationResult per matched
\* index entry, whatever the worker count, the fetch failures and the order in
\* which the workers complete: every entry's record was sent once, and the
\* returned list holds each symbol as often as the index does.
C1_OneResultPerEntry ==
    /\ \A j \in DOMAIN sent : sent[j] <= 1
    /\ ParseReturned =>
        /\ Len(results) = Len(matches)
        /\ \A j \in 1..Len(matches) : sent[j] = 1
        /\ \A j \in 1..Len(matches) :
            ItemCount(results, matches[j].item) = MatchCount(matches, matches[j].item)

\* Three entries on two workers, a failed fetch, and the results arrived in
\* another order than the index lists them.
C1_Witness ==
    /\ ParseReturned
    /\ Len(matches) = 3
    /\ numWorkers = 2
    /\ fetchErr # {}
    /\ results[1].Item # matches[1].item

\* C3: a failed fetch yields a record for that symbol carrying the error, and
\* every other entry (of the same chunk and of the other workers) is still
\* fetched and yields its own record: a worker is done only after its whole
\* chunk, and at the return every entry was fetched and sent, the records with
\* an error being those of the failed fetches.
C3_FailureDoesNotAbort ==
    /\ \A w \in DOMAIN wpc : wpc[w] = "done" => \A j \in Chunk(w) : sent[j] = 1
    /\ ParseReturned =>
        /\ fetches = 1 + Len(matches)
        /\ \A j \in 1..Len(matches) : sent[j] = 1
        /\ \A j \in 1..Len(matches) :
            ErrorCount(results, matches[j].item) = FailedCount(matches[j].item)
        /\ \A k \in 1..Len(results) :
            (results[k].Error # NoError) <=> (results[k].Version = << >>)

\* The first entry of worker 0's two-entry chunk failed; the chunk's second
\* entry and the other worker's entry have records without an error.
C3_Witness ==
    /\ ParseReturned
    /\ Len(matches) = 3
    /\ numWorkers = 2
    /\ fetchErr = {1}
    /\ Cardinality({k \in 1..Len(results) : results[k].Error = NoError}) = 2

SomeHung == \E w \in DOMAIN wpc : wpc[w] = "hung"

\* C2: if every fetch returns, ParseDeprecations returns, and it has returned
\* only when every worker has finished, the channel is closed and drained and
\* every record was collected; for every entry count, zero and fewer entries
\* than workers included.
C2_ReturnsAfterWorkersAndDrain ==
    /\ [](ParseReturned =>
            /\ \A w \in DOMAIN wpc : wpc[w] = "done"
            /\ wg = 0
            /\ chanClosed
            /\ Len(resultsChan) = 0
            /\ Len(results) = Len(matches))
    /\ (pc = "collect") ~> (ParseReturned \/ SomeHung)

\* Returned with fewer entries than workers: one worker had an empty chunk.
C2_Witness ==
    /\ ParseReturned
    /\ Len(matches) = 1
    /\ numWorkers = 2
    /\ Len(results) = 1

\* C9: if one detail-page fetch never returns, its worker never processes the
\* rest of its chunk and ParseDeprecations never returns, while every other
\* worker still gets to the end of its chunk (unless its own fetch hangs) with
\* all its records sent.
C9_HungFetchStallsItsWorkerOnly ==
    /\ [](\A w \in DOMAIN wpc : wpc[w] = "hung" =>
            /\ pc = "collect"
            /\ \A j \in Chunk(w) : j > wj[w] => sent[j] = 0)
    /\ [][\A w \in DOMAIN wpc : wpc[w] = "hung" =>
            wpc'[w] = "hung" /\ wj'[w] = wj[w]]_vars
    /\ [](\A v \in DOMAIN wpc : wpc[v] = "done" => \A j \in Chunk(v) : sent[j] = 1)
    /\ \A w \in WorkerIds :
        (w \in Workers /\ wpc[w] = "hung")
            ~> (\A v \in Workers \ {w} : wpc[v] \in {"done", "hung"})

\* Worker 0 hangs on the first entry of its two-entry chunk; the other worker
\* has finished and its record has been collected.
C9_Witness ==
    /\ Len(matches) = 3
    /\ numWorkers = 2
    /\ wpc[0] = "hung"
    /\ wj[0] = 0
    /\ wpc[1] = "done"
    /\ Len(resultsChan) = 0
    /\ Len(results) = 1
    /\ results[1].Item = matches[3].item

\* main is past the replay decision and nothing has written the cache yet.
Decided ==
    /\ pc # "start"
    /\ ~(pc = "aborted" /\ fetches = 0)
    /\ cacheWrites = 0

MaxOf(S) == CHOOSE x \in S : \A y \in S : y <= x

\* The newest lastUpdated among the entries of a snapshot.
Newest(entries) == MaxOf({entries[e].LastUpdated : e \in 1..Len(entries)})

\* The snapshot at the cache path loads, is not empty, and its newest
\* lastUpdated is less than 24 hours old.
SnapshotFresh ==
    LET content == fs[cacheFilePath(outDir)]
    IN  /\ content.kind = "json"
        /\ Len(content.entries) > 0
        /\ now - Newest(content.entries) < 24 * Hour

\* C4: a run with the cache flag replays the snapshot if and only if the
\* snapshot's newest lastUpdated is strictly less than 24 hours old; in every
\* other case, and without the flag, it fetches the index.
C4_ReplayIffFresh ==
    Decided =>
        /\ cachedTime.set <=> (useCache /\ SnapshotFresh)
        /\ ~cachedTime.set <=> fetches >= 1

\* The boundary: a snapshot exactly 24 hours old is rejected, the index is
\* fetched.
C4_Witness ==
    /\ useCache
    /\ pc = "fetchIndex"
    /\ fs[cacheFilePath(outDir)] = FileJson(SnapOne(now - 24 * Hour))
    /\ fetches = 1

\* How often (item, version) occurs in the entries of a snapshot / in results.
SnapshotPairs(entries, item, version) ==
    Cardinality(UNION {
        {<< e, i >> : i \in {k \in 1..Len(entries[e].Items) :
                                /\ entries[e].Items[k] = item
                                /\ entries[e].Version = version}} :
        e \in 1..Len(entries)})
ResultPairs(rs, item, version) ==
    Cardinality({k \in 1..Len(rs) : rs[k].Item = item /\ rs[k].Version = version})
SnapshotSize(entries) ==
    Cardinality(UNION {{<< e, i >> : i \in 1..Len(entries[e].Items)} :
                       e \in 1..Len(entries)})

\* C5: with the cache flag and a non-empty fresh snapshot the run issues no
\* fetch at all, starts no worker, and the records handed to generateReport
\* are exactly the (symbol, version) pairs of the snapshot, none with an error.
C5_ReplayWithoutNetwork ==
    /\ cachedTime.set =>
        /\ fetches = 0
        /\ \A w \in DOMAIN wpc : wpc[w] = "none"
        /\ \A k \in 1..Len(results) : results[k].Error = NoError
    /\ (Decided /\ useCache /\ SnapshotFresh) =>
        LET entries == fs[cacheFilePath(outDir)].entries
        IN  /\ cachedTime.set
            /\ Len(results) = SnapshotSize(entries)
            /\ \A e \in 1..Len(entries) : \A i \in 1..Len(entries[e].Items) :
                ResultPairs(results, entries[e].Items[i], entries[e].Version)
                    = SnapshotPairs(entries, entries[e].Items[i], entries[e].Version)

\* A replayed snapshot of two entries, reported without a fetch.
C5_Witness ==
    /\ pc = "done"
    /\ cachedTime.set
    /\ Len(results) = 2
    /\ report.written
    /\ fetches = 0

\* C6: a cache file that cannot be loaded is fatal only to a run that asked
\* for the cache; a run without the cache flag gets to its report whatever the
\* cache file holds.
C6_CacheErrorFatalOnlyWhenRequested == pc = "crashed" => useCache

\* No symbol in the items of two entries.
SymbolsInOneEntry(entries) ==
    \A e1, e2 \in 1..Len(entries) :
        e1 # e2 =>
            {entries[e1].Items[i] : i \in 1..Len(entries[e1].Items)}
            \cap {entries[e2].Items[i] : i \in 1..Len(entries[e2].Items)} = {}

\* C7: in every snapshot generateReport writes, each symbol name is in the
\* items of at most one CacheEntry.
C7_SymbolInOneEntry ==
    (cacheWrites > 0 /\ fs[reportCachePath].kind = "json") =>
        SymbolsInOneEntry(fs[reportCachePath].entries)

\* The run has ended after ParseDeprecations returned to main: the report is
\* out, generateReport returned an error, or the program panicked.
FreshRunEnded == ~cachedTime.set /\ pc \in {"done", "failed", "crashed"}

\* C8: a fresh run writes the cache file exactly once, and only after
\* ParseDeprecations has returned with every worker done; nothing is written
\* while main fetches the index or collects, or while a worker is running.
C8_CacheWrittenOnceAfterDispatch ==
    /\ cacheWrites <= 1
    /\ (pc \in {"start", "fetchIndex", "collect"}) => cacheWrites = 0
    /\ (\E w \in DOMAIN wpc : wpc[w] \notin {"none", "done"}) => cacheWrites = 0
    /\ (cacheWrites = 1 /\ ~cachedTime.set) =>
            /\ wg = 0
            /\ chanClosed
            /\ Len(results) = Len(matches)
    /\ FreshRunEnded => cacheWrites = 1

\* C10: the report's version groups are in descending version order, the
\* "Unknown Version" group is last, and the class groups of every version
\* group are in ascending class-name order.
C10_ReportOrder ==
    report.written =>
        LET g == report.Groups
        IN  /\ \A i \in 1..Len(g) : g[i].Version = UnknownVersion => i = Len(g)
            /\ \A i, j \in 1..Len(g) :
                (i < j /\ g[j].Version # UnknownVersion)
                    => ~CompareVersions(g[j].Version, g[i].Version)
            /\ \A i \in 1..Len(g) : \A a, b \in 1..Len(g[i].Classes) :
                a < b => StrLess(g[i].Classes[a].ClassName, g[i].Classes[b].ClassName)

\* The integers CompareVersions sees in a version, segment by segment.
SegmentValues(v) ==
    LET parts == Split(TrimPrefixV(v), ".")
    IN  [i \in 1..Len(parts) |-> Atoi(parts[i])]

\* x after y in the dictionary order of integer sequences.
RECURSIVE IntSeqGreater(_, _)
IntSeqGreater(x, y) ==
    IF Len(x) = 0 THEN FALSE
    ELSE IF Len(y) = 0 THEN TRUE
    ELSE IF Head(x) # Head(y) THEN Head(x) > Head(y)
    ELSE IntSeqGreater(Tail(x), Tail(y))

\* b is a with one or more segments cut off its end.
SegmentPrefix(b, a) ==
    LET pa == Split(a, ".")
        pb == Split(b, ".")
    IN  Len(pb) < Len(pa) /\ pb = SubSeq(pa, 1, Len(pb))

Ver1_21_3  == << "1", ".", "2", "1", ".", "3" >>
Ver1_21_10 == << "1", ".", "2", "1", ".", "1", "0" >>

\* C11: CompareVersions is a strict ordering: irreflexive, asymmetric and
\* transitive; it compares the segments as integers from left to right, so
\* that "1.21.3" > "1.21.10" and "1.3" > "1.21" are false; a version is newer
\* than itself with segments cut off its end.
C11_StrictSegmentOrder ==
    ret.done =>
        /\ ~ret.aa
        /\ ~(ret.ab /\ ret.ba)
        /\ \A c \in Versions :
            (ret.ab /\ CompareVersions(call.b, c)) => CompareVersions(call.a, c)
        /\ ret.ab <=> IntSeqGreater(SegmentValues(call.a), SegmentValues(call.b))
        /\ (call.a = Ver1_21_3 /\ call.b = Ver1_21_10) => ~ret.ab
        /\ (call.a = V1_3 /\ call.b = V1_21) => ~ret.ab
        /\ SegmentPrefix(call.b, call.a) => ret.ab

\* "1.21.10" compared with "1.21.3": newer, and not the other way round.
C11_Witness ==
    /\ ret.done
    /\ call.a = Ver1_21_10
    /\ call.b = Ver1_21_3
    /\ ret.ab
    /\ ~ret.ba

\* The places of a report's items: (version group, class group, item).
ReportPlaces(g) ==
    UNION {UNION {{<< i, c, k >> : k \in 1..Len(g[i].Classes[c].Items)} :
                  c \in 1..Len(g[i].Classes)} :
           i \in 1..Len(g)}

\* How often item is in the report, and how often in the group of version.
PlacesOf(g, item) ==
    Cardinality({p \in ReportPlaces(g) : g[p[1]].Classes[p[2]].Items[p[3]].FullPath = item})
PlacesIn(g, item, version) ==
    Cardinality({p \in ReportPlaces(g) :
                    /\ g[p[1]].Classes[p[2]].Items[p[3]].FullPath = item
                    /\ g[p[1]].Version = version})

\* C12: every record passed to generateReport is in exactly one class group
\* of exactly one version group of the report: none vanishes, none is
\* duplicated, a record with a version is in the group of its version and a
\* record whose fetch failed is in the "Unknown Version" group.
C12_EveryRecordInOneGroup ==
    report.written =>
        LET g == report.Groups
        IN  /\ Cardinality(ReportPlaces(g)) = Len(results)
            /\ \A r \in 1..Len(results) :
                /\ PlacesOf(g, results[r].Item) = ItemCount(results, results[r].Item)
                /\ results[r].Error = NoError =>
                        PlacesIn(g, results[r].Item, results[r].Version)
                            = ResultPairs(results, results[r].Item, results[r].Version)
                /\ PlacesIn(g, results[r].Item, UnknownVersion)
                        >= ErrorCount(results, results[r].Item)

\* A report of two records of one symbol, one with a version and one failed.
C12_Witness ==
    /\ report.written
    /\ Len(results) = 2
    /\ results[1].Item = results[2].Item
    /\ results[1].Error # NoError
    /\ results[2].Error = NoError
    /\ Len(report.Groups) = 2

\* C13: if the fetch of the index page fails the run aborts: no detail page is
\* fetched, no worker is started, no report is written and the cache file is
\* as it was when the run began.
C13_IndexFailureAborts ==
    /\ []((pc = "aborted" /\ fetches > 0) =>
            /\ indexPage.err
            /\ fetches = 1
            /\ \A w \in DOMAIN wpc : wpc[w] = "none"
            /\ wg = 0
            /\ results = << >>
            /\ ~report.written
            /\ cacheWrites = 0)
    /\ [][(pc = "fetchIndex" /\ indexPage.err) => (pc' = "aborted")]_vars
    /\ [][(pc \in {"start", "fetchIndex"}) => (fs' = fs)]_vars
    /\ [][(pc = "aborted") => (pc' = "aborted" /\ fs' = fs /\ report' = report)]_vars

\* A run with the cache flag and a snapshot too old to replay, aborted on the
\* failed index fetch.
C13_Witness ==
    /\ pc = "aborted"
    /\ fetches = 1
    /\ indexPage.err
    /\ useCache
    /\ fs[cacheFilePath(outDir)] = FileJson(SnapOne(now - 25 * Hour))

\* C14: LoadCache returns an empty snapshot and no error when the file does
\* not exist; for every other read failure and for content that cannot be
\* decoded it returns an error and no snapshot.
C14_LoadCacheSoftOnMissing ==
    ret.done =>
        /\ call.content.kind = "missing" =>
                /\ ~ret.value.err
                /\ ~ret.value.Nil
                /\ ret.value.Entries = << >>
        /\ call.content.kind \in {"unreadable", "corrupt"} =>
                /\ ret.value.err
                /\ ret.value.Nil
        /\ ret.value.err <=> call.content.kind \in {"unreadable", "corrupt"}

\* LoadCache on a file whose content is no JSON of a Cache.
C14_Witness ==
    /\ ret.done
    /\ call.content = FileCorrupt
    /\ ret.value.err
    /\ ret.value.Nil

\* A well-formed summary row: a summary item name div whose link has a target
\* and a label with text, with at most one soft-wrap marker and text after it.
WellFormedRow(row) ==
    /\ row.summary
    /\ row.href # ""
    /\ Len(row.frags) <= 2
    /\ Len(row.frags[Len(row.frags)]) > 0

\* The label of a row: its texts, the markers left out.
RECURSIVE Concat(_)
Concat(frags) == IF Len(frags) = 0 THEN << >> ELSE Head(frags) \o Concat(Tail(frags))

\* C15: for markup with N well-formed summary rows the extraction yields N
\* entries in document order; an entry's label is the text before the
\* soft-wrap marker followed by the text after it, and rows with the same
\* symbol name stay separate entries.
C15_ExtractionKeepsRows ==
    ret.done =>
        LET wf == SelectSeq(call.rows, WellFormedRow)
        IN  /\ Len(ret.value) = Len(wf)
            /\ \A i \in 1..Len(wf) :
                /\ ret.value[i].link = wf[i].href
                /\ ret.value[i].item = Concat(wf[i].frags)

\* Three well-formed rows, two of them of the same symbol name, one without
\* a marker.
C15_Witness ==
    /\ ret.done
    /\ Len(call.rows) = 3
    /\ Len(ret.value) = 3
    /\ ret.value[1].item = ItemBm
    /\ ret.value[2].item = ItemBm
    /\ ret.value[1].link # ret.value[2].link
    /\ Len(call.rows[3].frags) = 1

\* The symbol's local name: what follows its last dot.
LocalName(item) == Split(item, ".")[Len(Split(item, "."))]

\* Among the children there is a since-link with, somewhere after it, a text
\* node that contains "=".
SinceTextFollows(kids) ==
    \E i, k \in 1..Len(kids) :
        /\ i < k
        /\ kids[i].type = "a" /\ kids[i].since
        /\ kids[k].type = "text" /\ Contains(kids[k].data, "=")

\* The page has a section of the symbol's local name with an annotations span
\* in which a text node containing "=" follows a since-link.
SinceAnnotated(doc, item) ==
    \E i \in 1..Len(doc) :
        /\ doc[i].id = LocalName(item)
        /\ \E sp \in 1..Len(doc[i].spans) :
            /\ doc[i].spans[sp].class = "annotations"
            /\ SinceTextFollows(doc[i].spans[sp].kids)

\* C16: a fetched page without a section of the symbol's local name, or whose
\* section has no annotations span, or in whose span no text node with "="
\* follows a since-link, gives the record version "Unknown" and no error.
C16_AbsentSinceIsUnknown ==
    (ret.done /\ ~SinceAnnotated(call.doc, call.item)) =>
        /\ ret.value.Item = call.item
        /\ ret.value.Version = Unknown
        /\ ret.value.Error = NoError

\* A page whose section of the symbol has an annotations span with a
\* since-link and no text with "=" after it.
C16_Witness ==
    /\ ret.done
    /\ call.item = ItemBm
    /\ Len(call.doc) = 2
    /\ call.doc[2] = SectionNode(<< "m" >>,
            << SpanNode("annotations", << TextNode(TextSince1_3), SinceLink >>) >>)
    /\ call.doc[1].id = << "f" >>
    /\ ret.value.Version = Unknown
    /\ ret.value.Error = NoError

\* C17: for every text node after the since-link that contains "=", the
\* version returned has the surrounding quotes and the trailing ")" and ","
\* removed: it holds no quote character, no closing parenthesis and no comma.
C17_VersionWithoutArtifacts ==
    (ret.done /\ Contains(call.text, "=")) =>
        /\ ~Contains(ret.value, "\"")
        /\ ~Contains(ret.value, ")")
        /\ ~Contains(ret.value, ",")

\* ceil(n / nw): the least q with q * nw >= n.
Ceil(n, nw) == CHOOSE q \in 0..n : q * nw >= n /\ \A p \in 0..n : p * nw >= n => q <= p

\* C18: the ranges [w*ceil(N/W), min((w+1)*ceil(N/W), N)) of the workers
\* w = 0..W-1 are contiguous, pairwise disjoint and cover 0..N-1 exactly; a
\* worker whose start is at or past N processes nothing, and no worker reads
\* an index outside 0..N-1.
C18_ChunksPartitionEntries ==
    ret.done =>
        LET n  == call.n
            ws == 0..(call.nw - 1)
            q  == Ceil(call.n, call.nw)
        IN  /\ \A w \in ws :
                /\ ret.start[w] = w * q
                /\ ret.end[w] = IF (w + 1) * q < n THEN (w + 1) * q ELSE n
                /\ ret.reads[w] \subseteq 0..(n - 1)
                /\ ret.start[w] >= n => ret.reads[w] = {}
                /\ ret.start[w] < n => ret.reads[w] = ret.start[w]..(ret.end[w] - 1)
                /\ (w + 1 \in ws /\ ret.start[w] < n) => ret.end[w] =
                        (IF ret.start[w + 1] < n THEN ret.start[w + 1] ELSE n)
            /\ \A w1, w2 \in ws : w1 # w2 => ret.reads[w1] \cap ret.reads[w2] = {}
            /\ UNION {ret.reads[w] : w \in ws} = 0..(n - 1)

\* 12 entries on 10 workers: chunks of 2, the workers 6..9 have nothing.
C18_Witness ==
    /\ ret.done
    /\ call.n = 12
    /\ call.nw = 10
    /\ ret.reads[5] = {10, 11}
    /\ ret.reads[6] = {}
    /\ ret.start[9] = 18
    /\ ret.end[9] = 12

\* The workers are started: ParseDeprecations is running or has returned.
Dispatched == pc \notin {"start", "fetchIndex", "aborted"} /\ ~cachedTime.set

RECURSIVE SumOver(_, _)
SumOver(f, S) ==
    IF S = {} THEN 0
    ELSE LET x == CHOOSE x \in S : TRUE IN f[x] + SumOver(f, S \ {x})

\* Detail fetches issued and not yet returned: all fetches but the one of the
\* index, less one per record sent and per result about to be sent.
InFlight ==
    (fetches - 1) - SumOver(sent, DOMAIN sent)
                  - Cardinality({w \in DOMAIN wpc : wpc[w] = "sending"})

\* C19: each worker has at most one fetch in flight, at most numWorkers are
\* in flight in total, and a chunk's records are sent in increasing index
\* order: a worker starts entry j+1 only after it has sent the record of j.
C19_OneFetchPerWorkerInOrder ==
    /\ [](Dispatched =>
            /\ InFlight = Cardinality({w \in DOMAIN wpc : wpc[w] \in {"fetching", "hung"}})
            /\ InFlight <= numWorkers
            /\ \A w \in DOMAIN wpc : \A k \in Chunk(w) :
                /\ (wpc[w] = "ready" \/ k > wj[w] + 1) => sent[k] = 0
                /\ (wpc[w] = "done" \/ (wpc[w] # "ready" /\ k < wj[w] + 1)) => sent[k] = 1
                /\ (wpc[w] \in {"fetching", "hung", "sending"} /\ k = wj[w] + 1)
                        => sent[k] = 0)
    /\ [][\A w \in DOMAIN wpc :
            (fetches' > fetches /\ wpc'[w] = "fetching" /\ wpc[w] # "fetching") =>
                /\ wj'[w] + 1 \in Chunk(w)
                /\ \A k \in Chunk(w) : sent'[k] = (IF k < wj'[w] + 1 THEN 1 ELSE 0)]_vars

\* Two workers with a fetch in flight each, the first on the second entry of
\* its chunk with the record of the first entry sent.
C19_Witness ==
    /\ pc = "collect"
    /\ numWorkers = 2
    /\ Len(matches) = 3
    /\ wpc[0] = "fetching"
    /\ wpc[1] = "fetching"
    /\ wj[0] = 1
    /\ sent = << 1, 0, 0 >>
    /\ InFlight = 2

\* C20: no worker sends on the closed channel and no worker blocks on a
\* send: the channel is closed only when all workers have finished, and the
\* records sent never exceed its capacity, the number of index entries.
C20_NoSendOnClosedNoBlockedSend ==
    /\ pc # "crashed"
    /\ chanClosed => (wg = 0 /\ \A w \in DOMAIN wpc : wpc[w] = "done")
    /\ Dispatched =>
        /\ Len(resultsChan) <= Len(matches)
        /\ SumOver(sent, DOMAIN sent) <= Len(matches)
        /\ Len(resultsChan) + Len(results) = SumOver(sent, DOMAIN sent)
        /\ \A w \in DOMAIN wpc : wpc[w] = "sending" => Len(resultsChan) < Len(matches)

\* The channel is full and closed before main has received anything.
C20_Witness ==
    /\ pc = "collect"
    /\ chanClosed
    /\ Len(matches) = 3
    /\ Len(resultsChan) = 3
    /\ results = << >>

\* ---------------------------------------------------------------- C21

\* A fresh run that completed: it fetched, saved the snapshot and wrote the
\* report.
FreshCompleted(r) == r.fetches > 0 /\ r.pc = "done"

\* The run before this one.
LastRun == runs[Len(runs)]

\* C21: when a fresh run has completed and the next run starts less than 24
\* hours later with the cache flag and the same output directory, that run
\* replays the snapshot the first run saved and fetches nothing, whatever the
\* output directory is.
C21_SecondRunReplaysFirst ==
    [][(/\ MainStart
        /\ Len(runs) > 0
        /\ FreshCompleted(LastRun)
        /\ useCache
        /\ outDir = LastRun.outDir
        /\ now - LastRun.now < MaxAge
        /\ pc' # "aborted")
       => (/\ pc' = "report"
           /\ fetches' = 0
           /\ results' = ReplayResults(LastRun.cache.entries))]_vars

\* ---------------------------------------------------------------- C22

\* The runs on this disk so far, the run in progress last.
AllRuns == Append(runs, RunRecord)

\* The fresh runs among them: those that fetched the index.
FreshRuns(rs) == {i \in 1..Len(rs) : rs[i].fetches > 0}

\* The last fresh run.
LastFresh(rs) == rs[MaxOf(FreshRuns(rs))]

\* The lastUpdated values of a cache file's entries.
SnapshotTimes(content) ==
    IF content.kind = "json"
    THEN {content.entries[e].LastUpdated : e \in 1..Len(content.entries)}
    ELSE {}

\* A run that replays saves no other lastUpdated than the one it loaded, and
\* never the current time.
ReplaySavesLoadedTime ==
    (GenerateReport /\ fetches = 0 /\ fs' # fs)
    => /\ SnapshotTimes(fs'[reportCachePath])
            \subseteq {fs[cacheFilePath(outDir)].entries[1].LastUpdated}
       /\ TimeUnix(Unix(now)) \notin SnapshotTimes(fs'[reportCachePath])

\* Every lastUpdated on disk is the time (in whole seconds) of a fresh run,
\* and of the last one when that run completed.
SnapshotCarriesFreshTime ==
    \A t \in SnapshotTimes(fs[reportCachePath]) :
        /\ \E i \in FreshRuns(AllRuns) : t = TimeUnix(Unix(AllRuns[i].now))
        /\ FreshCompleted(LastFresh(AllRuns))
            => t = TimeUnix(Unix(LastFresh(AllRuns).now))

\* A run with the cache flag that starts 24 hours or more after the last
\* fresh run fetches the index.
StaleRunRefetches ==
    (/\ MainStart
     /\ useCache
     /\ FreshRuns(runs) # {}
     /\ now - LastFresh(runs).now >= MaxAge
     /\ pc' # "aborted")
    => (pc' = "fetchIndex" /\ fetches' = 1)

\* C22: a run that replays the cache saves the snapshot with the lastUpdated
\* it loaded, never with the current time; whatever replays follow a fresh
\* run, the snapshot keeps the time of that fresh run, and a run with the
\* cache flag 24 hours or more after the last fresh run fetches again.
C22_ReplayKeepsLastUpdated ==
    /\ []SnapshotCarriesFreshTime
    /\ [][ReplaySavesLoadedTime]_vars
    /\ [][StaleRunRefetches]_vars

\* A fresh run, a replay an hour later that saved the snapshot again, and a
\* third run with the cache flag that finds the snapshot 25 hours old and
\* has gone to fetch, though the replay is less than a day back.
C22_Witness ==
    /\ Len(runs) = 2
    /\ FreshCompleted(runs[1])
    /\ runs[2].useCache /\ runs[2].fetches = 0 /\ runs[2].pc = "done"
    /\ runs[2].cacheWrites = 1
    /\ useCache
    /\ pc = "fetchIndex"
    /\ now - runs[2].now < MaxAge
    /\ now - runs[1].now >= MaxAge
    /\ SnapshotTimes(fs[reportCachePath]) = {runs[1].now}

\* ---------------------------------------------------------------- C23

\* The sections of the page whose id is the symbol's local name.
SectionsOf(doc, item) == {i \in 1..Len(doc) : doc[i].id = LocalName(item)}

\* C23: on a page with several sections whose id is the symbol's local name,
\* findElementNodeByID returns the first of them in document order and the
\* record's version is the one extracted from that section.
C23_FirstSectionWins ==
    (ret.done /\ Cardinality(SectionsOf(call.doc, call.item)) > 1) =>
        LET first == MinOf(SectionsOf(call.doc, call.item))
        IN  /\ findElementNodeByID(call.doc, LocalName(call.item)) = first
            /\ ret.value = processDeprecatedItem(call.item,
                    Fetched(extractDeprecatedSinceFromNode(call.doc[first])))

====
